---- MODULE Spec2Model ----
(***************************************************************************)
(* Model of apps/extension/create-simple-icons.py: the icon generator      *)
(* (create_icon, main) and the script's entry point with its two exception *)
(* handlers.                                                               *)
(*                                                                         *)
(* Environment, as far as the script can observe it:                       *)
(*   - the file system under the working directory: the directories        *)
(*     public and public/assets, and the files inside public/assets;       *)
(*   - whether Pillow is importable when the script starts;                *)
(*   - the imaging library: every call into it either returns or raises;   *)
(*     a raising call has no effect on the file system.  The exception is  *)
(*     either an ImportError (Pillow resolves parts of itself lazily) or   *)
(*     another subclass of Exception;                                      *)
(*   - the default font: whether ImageFont.load_default() returns, and the *)
(*     bounding box the library measures for the shield glyph string (the  *)
(*     same on every call: the library is deterministic);                  *)
(*   - the package installer: it succeeds or fails;                        *)
(*   - the console: print() does not fail.                                 *)
(***************************************************************************)
EXTENDS Integers, Sequences, FiniteSets, TLC

VARIABLES
    pillow,        \* TRUE iff "from PIL import ..." can succeed at start-up
    fontOK,        \* TRUE iff ImageFont.load_default() returns a font
    glyph,         \* <<left, top, right, bottom>>: what textbbox measures
    dirs,          \* the directories that exist, a subset of DirNames
    files,         \* file name in public/assets -> content
    pc,            \* position of the interpreter in the script
    attempt,       \* 0: before the try; 1: in the try block (line 55); 2: in the
                   \* ImportError handler (lines 59-60), where nothing is caught
    idx,           \* position of the for loop of main() in sizes (1..Len(sizes)+1)
    img,           \* create_icon's local img (the raster being drawn)
    font,          \* create_icon's local font: "default" or "None"
    text_bbox,     \* create_icon's local text_bbox
    exc,           \* the exception in flight or last raised: "none" or its class
    failedAt,      \* <<operation, size>> that raised since main() was last entered
    exc1,          \* the exception that ended the first call of main(), or "none"
    installs,      \* number of times the package installer was run by this process
    out,           \* lines the entry point printed (handlers), in order
    trace,         \* the calls and prints of the current call of main(), in order
    exitCode,      \* -1 while running, else the exit status of the process
    dirsAtStart,   \* dirs when the current call of main() started
    filesAtStart,  \* files when the current call of main() started
    prevOK         \* TRUE iff the previous run of the script printed the banner

vars == <<pillow, fontOK, glyph, dirs, files, pc, attempt, idx, img, font,
          text_bbox, exc, failedAt, exc1, installs, out, trace, exitCode,
          dirsAtStart, filesAtStart, prevOK>>

env == <<pillow, fontOK, glyph>>

(***************************************************************************)
(* Bounds of the environment.                                              *)
(***************************************************************************)
\* Largest width and height of the glyph string's measured bounding box.
MaxGlyphW == 12
MaxGlyphH == 11

(***************************************************************************)
(* Program constants.                                                      *)
(***************************************************************************)
sizes == <<16, 32, 48, 128>>

MarginDiv == 8
RadiusDiv == 10
TextThreshold == 32

Blue  == <<59, 130, 246, 255>>
Gold  == <<234, 179, 8, 255>>
White == <<255, 255, 255, 255>>

DirNames == {"public", "public/assets"}

\* os.path.join('public', 'assets')
assets_dir == "public/assets"

\* IconName with the name computed from the first size instead of the loop's
IconNameFirstSize(size) == "icon-" \o ToString(sizes[1]) \o ".png"

\* the file name part of icon_path: f'icon-{size}.png'
IconName(size) == "icon-" \o ToString(size) \o ".png"

IconNames == {IconName(sizes[i]) : i \in 1..Len(sizes)}

\* a file of public/assets that is none of the script's outputs
OtherName == "manifest.json"

(***************************************************************************)
(* Rasters and file contents.                                              *)
(***************************************************************************)
NoImage ==
    [width |-> 0, height |-> 0, bg |-> <<0, 0, 0, 0>>,
     hasRect |-> FALSE, rect |-> <<0, 0, 0, 0>>, radius |-> 0,
     rectFill |-> <<0, 0, 0, 0>>,
     hasGlyph |-> FALSE, glyphBox |-> <<0, 0, 0, 0>>,
     glyphFill |-> <<0, 0, 0, 0>>]

Absent == [kind |-> "absent", image |-> NoImage]
Data   == [kind |-> "data",   image |-> NoImage]
Png(im) == [kind |-> "png", image |-> im]

\* Image.new('RGBA', (w, h), colour)
ImageNew(w, h, colour) ==
    [NoImage EXCEPT !.width = w, !.height = h, !.bg = colour]

\* draw.rounded_rectangle(box, radius=r, fill=colour)
RoundedRectangle(im, box, r, colour) ==
    [im EXCEPT !.hasRect = TRUE, !.rect = box, !.radius = r,
               !.rectFill = colour]

\* draw.text((x, y), text, fill=colour): the glyphs are painted inside the
\* measured box moved to (x, y); the model paints the whole box.
DrawText(im, x, y, bbox, colour) ==
    [im EXCEPT !.hasGlyph = bbox[3] > bbox[1] /\ bbox[4] > bbox[2],
               !.glyphBox = <<x + bbox[1], y + bbox[2], x + bbox[3], y + bbox[4]>>,
               !.glyphFill = colour]

Sq(n) == n * n

\* (x, y) is inside the rounded rectangle box (both ends inclusive) of radius r
InRounded(box, r, x, y) ==
    LET x0 == box[1]  y0 == box[2]  x1 == box[3]  y1 == box[4]
        cx == IF x < x0 + r THEN x0 + r ELSE IF x > x1 - r THEN x1 - r ELSE x
        cy == IF y < y0 + r THEN y0 + r ELSE IF y > y1 - r THEN y1 - r ELSE y
    IN  /\ x0 <= x /\ x <= x1
        /\ y0 <= y /\ y <= y1
        /\ Sq(x - cx) + Sq(y - cy) <= Sq(r)

InBox(box, x, y) ==
    /\ box[1] <= x /\ x < box[3]
    /\ box[2] <= y /\ y < box[4]

\* the colour of pixel (x, y) of the raster, later drawing over earlier
PixelAt(im, x, y) ==
    IF im.hasGlyph /\ InBox(im.glyphBox, x, y) THEN im.glyphFill
    ELSE IF im.hasRect /\ InRounded(im.rect, im.radius, x, y) THEN im.rectFill
    ELSE im.bg

(***************************************************************************)
(* create_icon's arithmetic.                                               *)
(***************************************************************************)
\* Margin with a divisor that rounds the smallest icon's margin down to 0
MarginTooFine(size) == size \div (4 * MarginDiv)

\* margin = size // 8
Margin(size) == size \div MarginDiv

\* radius=size//10
Radius(size) == size \div RadiusDiv

\* [margin, margin, size-margin, size-margin]
ShieldBox(size) ==
    <<Margin(size), Margin(size), size - Margin(size), size - Margin(size)>>

\* NeedsText without the threshold
NeedsTextAlways(size) == size >= 0

\* if size >= 32
NeedsText(size) == size >= TextThreshold

\* x = (size - text_width) // 2, y = (size - text_height) // 2
TextOrigin(size, bbox) ==
    <<(size - (bbox[3] - bbox[1])) \div 2, (size - (bbox[4] - bbox[2])) \div 2>>

\* the raster create_icon has drawn when it reaches img.save, for a library
\* that measures bbox for the glyph string
IconImage(size, bbox) ==
    LET base == RoundedRectangle(ImageNew(size, size, Blue),
                                 ShieldBox(size), Radius(size), Gold)
        o    == TextOrigin(size, bbox)
    IN  IF NeedsText(size) THEN DrawText(base, o[1], o[2], bbox, White)
        ELSE base

(***************************************************************************)
(* The state machine.                                                      *)
(***************************************************************************)
\* what the library can measure for the glyph string: nothing (the font has
\* no glyph for it) or a box of the largest extent
GlyphBoxes == {<<0, 0, 0, 0>>, <<1, 1, MaxGlyphW, MaxGlyphH>>}

FileNames == IconNames \cup {OtherName}

\* the classes of exception a call into the imaging library can raise
LibraryErrors == {"ImportError", "Exception"}

NoFailure == <<"none", 0>>

\* the loop variable size of main(), the argument of create_icon
curSize == sizes[idx]

Init ==
    /\ pillow \in BOOLEAN
    /\ fontOK \in BOOLEAN
    /\ glyph \in GlyphBoxes
    /\ dirs \in {{}, {"public"}, DirNames}
    /\ files \in [FileNames -> {Absent, Data}]
    /\ (assets_dir \notin dirs) => (\A n \in FileNames : files[n] = Absent)
    /\ pc = "import"
    /\ attempt = 0
    /\ idx = 1
    /\ img = NoImage
    /\ font = "None"
    /\ text_bbox = <<0, 0, 0, 0>>
    /\ exc = "none"
    /\ failedAt = NoFailure
    /\ exc1 = "none"
    /\ installs = 0
    /\ out = <<>>
    /\ trace = <<>>
    /\ exitCode = -1
    /\ dirsAtStart = dirs
    /\ filesAtStart = files
    /\ prevOK = FALSE

\* Raise as if the retry of line 60 were inside the try block as well
RaiseAlwaysCaught(cls, op, sz) ==
    /\ exc' = cls
    /\ failedAt' = <<op, sz>>
    /\ exc1' = IF attempt = 1 THEN cls ELSE exc1
    /\ pc' = IF attempt >= 1 THEN "except" ELSE "uncaught"
    /\ UNCHANGED <<env, dirs, files, attempt, idx, img, font, text_bbox,
                   installs, out, trace, exitCode, dirsAtStart, filesAtStart,
                   prevOK>>

\* Raise as if create_icon were called inside a try block of its own in the
\* loop: a failing size is skipped and the loop goes on
RaiseAndContinue(cls, op, sz) ==
    /\ exc' = cls
    /\ failedAt' = <<op, sz>>
    /\ IF sz > 0
         THEN /\ pc' = "loop"
              /\ idx' = idx + 1
              /\ UNCHANGED exc1
         ELSE /\ pc' = IF attempt = 1 THEN "except" ELSE "uncaught"
              /\ exc1' = IF attempt = 1 THEN cls ELSE exc1
              /\ UNCHANGED idx
    /\ UNCHANGED <<env, dirs, files, attempt, img, font, text_bbox,
                   installs, out, trace, exitCode, dirsAtStart, filesAtStart,
                   prevOK>>

\* an exception of class cls leaves operation op: inside the try block of
\* line 54 (the first call of main) it goes to the except clauses, anywhere
\* else nothing catches it.  Nothing else changes: the statements after the
\* raising one do not run.
Raise(cls, op, sz) ==
    /\ exc' = cls
    /\ failedAt' = <<op, sz>>
    /\ exc1' = IF attempt = 1 THEN cls ELSE exc1
    /\ pc' = IF attempt = 1 THEN "except" ELSE "uncaught"
    /\ UNCHANGED <<env, dirs, files, attempt, idx, img, font, text_bbox,
                   installs, out, trace, exitCode, dirsAtStart, filesAtStart,
                   prevOK>>

NoRaise == UNCHANGED <<exc, failedAt, exc1>>

Log(op, sz) == trace' = Append(trace, <<op, sz>>)

\* lines 3-5: the imports at module level, outside every try block
ModuleImport ==
    /\ pc = "import"
    /\ IF pillow
         THEN /\ pc' = "entry"
              /\ NoRaise
              /\ UNCHANGED <<env, dirs, files, attempt, idx, img, font,
                             text_bbox, installs, out, trace, exitCode,
                             dirsAtStart, filesAtStart, prevOK>>
         ELSE Raise("ImportError", "import", 0)

\* the start of a call of main(): n = 1 from line 55, n = 2 from line 60
EnterMain(n) ==
    /\ attempt' = n
    /\ idx' = 1
    /\ trace' = <<>>
    /\ failedAt' = NoFailure
    /\ dirsAtStart' = dirs
    /\ filesAtStart' = files
    /\ pc' = "makedirs"
    /\ UNCHANGED <<env, dirs, files, img, font, text_bbox, exc, exc1,
                   installs, out, exitCode, prevOK>>

\* lines 53-55: if __name__ == "__main__": try: main()
EntryTry ==
    /\ pc = "entry"
    /\ EnterMain(1)

\* EnsureDirs creating the last directory only (os.mkdir)
EnsureDirsLeafOnly(d) == d \cup {assets_dir}

\* the directories after os.makedirs(assets_dir, exist_ok=True)
EnsureDirs(d) == d \cup {"public", assets_dir}

\* lines 41-42: os.makedirs(assets_dir, exist_ok=True)
MakeDirs ==
    /\ pc = "makedirs"
    /\ \/ /\ dirs' = EnsureDirs(dirs)
          /\ Log("makedirs", 0)
          /\ pc' = "loop"
          /\ NoRaise
          /\ UNCHANGED <<env, files, attempt, idx, img, font, text_bbox,
                         installs, out, exitCode, dirsAtStart, filesAtStart,
                         prevOK>>
       \/ Raise("Exception", "makedirs", 0)

\* LoopNext leaving the loop one size early
LoopNextOffByOne ==
    /\ pc = "loop"
    /\ pc' = IF idx < Len(sizes) THEN "new" ELSE "banner"
    /\ NoRaise
    /\ UNCHANGED <<env, dirs, files, attempt, idx, img, font, text_bbox,
                   installs, out, trace, exitCode, dirsAtStart, filesAtStart,
                   prevOK>>

\* lines 45-48: for size in sizes: ... create_icon(size, icon_path)
LoopNext ==
    /\ pc = "loop"
    /\ pc' = IF idx <= Len(sizes) THEN "new" ELSE "banner"
    /\ NoRaise
    /\ UNCHANGED <<env, dirs, files, attempt, idx, img, font, text_bbox,
                   installs, out, trace, exitCode, dirsAtStart, filesAtStart,
                   prevOK>>

\* line 9: img = Image.new('RGBA', (size, size), (59, 130, 246, 255))
NewImage ==
    /\ pc = "new"
    /\ \/ /\ img' = ImageNew(curSize, curSize, Blue)
          /\ Log("new", curSize)
          /\ pc' = "draw"
          /\ NoRaise
          /\ UNCHANGED <<env, dirs, files, attempt, idx, font, text_bbox,
                         installs, out, exitCode, dirsAtStart, filesAtStart,
                         prevOK>>
       \/ \E cls \in LibraryErrors : Raise(cls, "new", curSize)

\* line 10: draw = ImageDraw.Draw(img)
NewDraw ==
    /\ pc = "draw"
    /\ \/ /\ Log("Draw", curSize)
          /\ pc' = "rect"
          /\ NoRaise
          /\ UNCHANGED <<env, dirs, files, attempt, idx, img, font, text_bbox,
                         installs, out, exitCode, dirsAtStart, filesAtStart,
                         prevOK>>
       \/ \E cls \in LibraryErrors : Raise(cls, "Draw", curSize)

\* lines 13-15: margin = size // 8; draw.rounded_rectangle(...)
DrawShield ==
    /\ pc = "rect"
    /\ \/ /\ img' = RoundedRectangle(img, ShieldBox(curSize), Radius(curSize), Gold)
          /\ Log("rounded_rectangle", curSize)
          /\ pc' = "font"
          /\ NoRaise
          /\ UNCHANGED <<env, dirs, files, attempt, idx, font, text_bbox,
                         installs, out, exitCode, dirsAtStart, filesAtStart,
                         prevOK>>
       \/ \E cls \in LibraryErrors : Raise(cls, "rounded_rectangle", curSize)

\* lines 18-27: try: font = ImageFont.load_default() except: font = None
\* (the bare except swallows every failure); then the test of size against 32
LoadFont ==
    /\ pc = "font"
    /\ font' = IF fontOK THEN "default" ELSE "None"
    /\ Log("load_default", curSize)
    /\ pc' = IF NeedsText(curSize) THEN "textbbox" ELSE "save"
    /\ NoRaise
    /\ UNCHANGED <<env, dirs, files, attempt, idx, img, text_bbox, installs,
                   out, exitCode, dirsAtStart, filesAtStart, prevOK>>

\* lines 28-30: text_bbox = draw.textbbox((0, 0), text, font=font)
MeasureText ==
    /\ pc = "textbbox"
    /\ \/ /\ text_bbox' = glyph
          /\ Log("textbbox", curSize)
          /\ pc' = "text"
          /\ NoRaise
          /\ UNCHANGED <<env, dirs, files, attempt, idx, img, font, installs,
                         out, exitCode, dirsAtStart, filesAtStart, prevOK>>
       \/ \E cls \in LibraryErrors : Raise(cls, "textbbox", curSize)

\* lines 31-33: x, y = centred; draw.text((x, y), text, fill='white', font=font)
PaintText ==
    /\ pc = "text"
    /\ \/ /\ LET o == TextOrigin(curSize, text_bbox)
             IN  img' = DrawText(img, o[1], o[2], text_bbox, White)
          /\ Log("text", curSize)
          /\ pc' = "save"
          /\ NoRaise
          /\ UNCHANGED <<env, dirs, files, attempt, idx, font, text_bbox,
                         installs, out, exitCode, dirsAtStart, filesAtStart,
                         prevOK>>
       \/ \E cls \in LibraryErrors : Raise(cls, "text", curSize)

\* WriteFile appending to a file that exists (mode 'ab'): the bytes of an
\* existing file followed by a PNG stream are not that PNG stream
WriteFileAppend(fs, name, content) ==
    [n \in DOMAIN fs \cup {name} |->
        IF n = name
          THEN (IF name \in DOMAIN fs /\ fs[name] # Absent THEN Data ELSE content)
          ELSE fs[n]]

\* the files after open(path, 'wb') and a complete write of content
WriteFile(fs, name, content) ==
    [n \in DOMAIN fs \cup {name} |-> IF n = name THEN content ELSE fs[n]]

\* line 36: img.save(output_path, 'PNG'), output_path being
\* os.path.join(assets_dir, f'icon-{size}.png') of line 47
SaveImage ==
    /\ pc = "save"
    /\ \/ /\ files' = WriteFile(files, IconName(curSize), Png(img))
          /\ Log("save", curSize)
          /\ pc' = "created"
          /\ NoRaise
          /\ UNCHANGED <<env, dirs, attempt, idx, img, font, text_bbox,
                         installs, out, exitCode, dirsAtStart, filesAtStart,
                         prevOK>>
       \/ \E cls \in LibraryErrors : Raise(cls, "save", curSize)

\* line 37: print(f"Created {output_path}"); create_icon returns and the
\* loop takes the next size
PrintCreated ==
    /\ pc = "created"
    /\ Log("Created", curSize)
    /\ idx' = idx + 1
    /\ pc' = "loop"
    /\ NoRaise
    /\ UNCHANGED <<env, dirs, files, attempt, img, font, text_bbox, installs,
                   out, exitCode, dirsAtStart, filesAtStart, prevOK>>

\* lines 50-51: the two completion lines; main() returns
PrintBanner ==
    /\ pc = "banner"
    /\ trace' = trace \o <<<<"banner1", 0>>, <<"banner2", 0>>>>
    /\ pc' = "returned"
    /\ NoRaise
    /\ UNCHANGED <<env, dirs, files, attempt, idx, img, font, text_bbox,
                   installs, out, exitCode, dirsAtStart, filesAtStart, prevOK>>

\* lines 56-58: except ImportError: print(...); import subprocess
HandleImportError ==
    /\ pc = "except"
    /\ exc = "ImportError"
    /\ out' = Append(out, "installing")
    /\ pc' = "install"
    /\ NoRaise
    /\ UNCHANGED <<env, dirs, files, attempt, idx, img, font, text_bbox,
                   installs, trace, exitCode, dirsAtStart, filesAtStart,
                   prevOK>>

\* line 59: subprocess.run([... "pip", "install", "Pillow"], check=True),
\* inside the except clause, where no handler of this try statement applies
PipInstall ==
    /\ pc = "install"
    /\ installs' = installs + 1
    /\ attempt' = 2
    /\ \/ /\ pc' = "retry"
          /\ NoRaise
       \/ /\ exc' = "CalledProcessError"
          /\ failedAt' = <<"install", 0>>
          /\ pc' = "uncaught"
          /\ UNCHANGED exc1
    /\ UNCHANGED <<env, dirs, files, idx, img, font, text_bbox, out, trace,
                   exitCode, dirsAtStart, filesAtStart, prevOK>>

\* line 60: main(), the retry
RetryMain ==
    /\ pc = "retry"
    /\ EnterMain(2)

\* HandleException raising again after the two diagnostic lines
HandleExceptionReraise ==
    /\ pc = "except"
    /\ exc # "ImportError"
    /\ out' = out \o <<"error", "continuing">>
    /\ pc' = "uncaught"
    /\ NoRaise
    /\ UNCHANGED <<env, dirs, files, attempt, idx, img, font, text_bbox,
                   installs, trace, exitCode, dirsAtStart, filesAtStart,
                   prevOK>>

\* lines 61-63: except Exception as e: the two diagnostic lines
HandleException ==
    /\ pc = "except"
    /\ exc # "ImportError"
    /\ out' = out \o <<"error", "continuing">>
    /\ pc' = "returned"
    /\ NoRaise
    /\ UNCHANGED <<env, dirs, files, attempt, idx, img, font, text_bbox,
                   installs, trace, exitCode, dirsAtStart, filesAtStart,
                   prevOK>>

\* the end of the script is reached: exit status 0
ExitNormally ==
    /\ pc = "returned"
    /\ exitCode' = 0
    /\ pc' = "exited"
    /\ NoRaise
    /\ UNCHANGED <<env, dirs, files, attempt, idx, img, font, text_bbox,
                   installs, out, trace, dirsAtStart, filesAtStart, prevOK>>

\* an exception no handler catches: traceback, exit status 1
ExitUncaught ==
    /\ pc = "uncaught"
    /\ exitCode' = 1
    /\ pc' = "exited"
    /\ NoRaise
    /\ UNCHANGED <<env, dirs, files, attempt, idx, img, font, text_bbox,
                   installs, out, trace, dirsAtStart, filesAtStart, prevOK>>

\* the main() that last ran printed the banner
Succeeded == Len(trace) > 0 /\ trace[Len(trace)] = <<"banner2", 0>>

\* the script is started again in the same working directory and environment
Relaunch ==
    /\ pc = "exited"
    /\ prevOK' = Succeeded
    /\ pc' = "import"
    /\ attempt' = 0
    /\ idx' = 1
    /\ img' = NoImage
    /\ font' = "None"
    /\ text_bbox' = <<0, 0, 0, 0>>
    /\ exc' = "none"
    /\ failedAt' = NoFailure
    /\ exc1' = "none"
    /\ installs' = 0
    /\ out' = <<>>
    /\ trace' = <<>>
    /\ exitCode' = -1
    /\ dirsAtStart' = dirs
    /\ filesAtStart' = files
    /\ UNCHANGED <<env, dirs, files>>

Next ==
    \/ ModuleImport
    \/ EntryTry
    \/ MakeDirs
    \/ LoopNext
    \/ NewImage
    \/ NewDraw
    \/ DrawShield
    \/ LoadFont
    \/ MeasureText
    \/ PaintText
    \/ SaveImage
    \/ PrintCreated
    \/ PrintBanner
    \/ HandleImportError
    \/ PipInstall
    \/ RetryMain
    \/ HandleException
    \/ ExitNormally
    \/ ExitUncaught
    \/ Relaunch

Spec == Init /\ [][Next]_vars

TypeOK ==
    /\ pc \in {"import", "entry", "makedirs", "loop", "new", "draw", "rect",
               "font", "textbbox", "text", "save", "created", "banner",
               "except", "install", "retry", "returned", "uncaught", "exited"}
    /\ attempt \in 0..2
    /\ idx \in 1..(Len(sizes) + 1)
    /\ exitCode \in {-1, 0, 1}

(***************************************************************************)
(* Properties.                                                             *)
(***************************************************************************)
\* the four output files, as the interface names them
ExpectedFile(s) ==
    CASE s = 16  -> "icon-16.png"
      [] s = 32  -> "icon-32.png"
      [] s = 48  -> "icon-48.png"
      [] s = 128 -> "icon-128.png"

ExpectedSizes == {16, 32, 48, 128}

HasPng(fs, s) ==
    /\ ExpectedFile(s) \in DOMAIN fs
    /\ fs[ExpectedFile(s)].kind = "png"

InTrace(e) == \E i \in 1..Len(trace) : trace[i] = e

\* a call of main() has ended by an exception and main() was not entered again
MainFailed ==
    /\ failedAt # NoFailure
    /\ failedAt[1] # "install"
    /\ attempt >= 1

\* C1: after a call of main() in which nothing failed, every icon-<size>.png
\* exists and holds a raster of size x size pixels; and in every state, a
\* raster stored under the name icon-<size>.png is size x size.
C1_IconDimensions ==
    /\ Succeeded =>
         \A s \in ExpectedSizes :
            /\ HasPng(files, s)
            /\ files[ExpectedFile(s)].image.width = s
            /\ files[ExpectedFile(s)].image.height = s
    /\ \A s \in ExpectedSizes :
         HasPng(files, s) =>
            /\ files[ExpectedFile(s)].image.width = s
            /\ files[ExpectedFile(s)].image.height = s

C1_Witness ==
    /\ pc = "returned"
    /\ Succeeded
    /\ \A s \in ExpectedSizes : HasPng(files, s)
    /\ files["icon-128.png"].image.width = 128

\* C2: a run started without Pillow ends, once the installer has succeeded,
\* with the four icons written: the ImportError reaches the handler of line
\* 56, which installs and calls main() again.  (Every run without Pillow that
\* has ended has printed the installing line and run the installer.)
C2_MissingPillowRecovered ==
    (pc = "exited" /\ ~pillow) =>
        /\ out # <<>> /\ out[1] = "installing"
        /\ installs = 1
        /\ (exitCode = 0 => \A s \in ExpectedSizes : HasPng(files, s))

\* C3: a failure of the first call of main() that is no ImportError is caught:
\* the two diagnostic lines are printed, nothing is installed or retried, and
\* the process ends with exit status 0.
C3_ToleratedFailure ==
    (exc1 \notin {"none", "ImportError"}) =>
        /\ pc \in {"except", "returned", "exited"}
        /\ attempt = 1
        /\ installs = 0
        /\ pc \in {"returned", "exited"} => out = <<"error", "continuing">>
        /\ pc = "exited" => exitCode = 0

C3_Witness ==
    /\ pc = "exited"
    /\ exc1 = "Exception"
    /\ failedAt = <<"save", 48>>
    /\ exitCode = 0
    /\ out = <<"error", "continuing">>

\* C4: when main() runs to its end twice in succession (the script is run,
\* succeeds, and is run again), every icon-<size>.png holds after the second
\* run exactly what it held after the first; that content depends on the
\* size alone (and on the library's measure of the glyph), whatever the
\* files held before the first run.
C4_Idempotent ==
    /\ (Succeeded /\ prevOK /\ attempt = 1) =>
          \A s \in ExpectedSizes :
             /\ HasPng(files, s)
             /\ files[ExpectedFile(s)] = filesAtStart[ExpectedFile(s)]
    /\ Succeeded =>
          \A s \in ExpectedSizes :
             /\ HasPng(files, s)
             /\ files[ExpectedFile(s)] = Png(IconImage(s, glyph))

C4_Witness ==
    /\ pc = "exited"
    /\ Succeeded
    /\ prevOK
    /\ attempt = 1
    /\ files["icon-32.png"].image.hasGlyph
    /\ files["icon-32.png"] = filesAtStart["icon-32.png"]

\* C5: when public/assets did not exist as main() started and main() ran to
\* its end, public and public/assets exist and the four icons are there; when
\* it existed, the directories are unchanged; and in every case each file
\* other than the four icons is as it was when main() started, and no file
\* that was there has gone.
C5_DirectoryAndFrame ==
    attempt >= 1 =>
        /\ (Succeeded /\ assets_dir \notin dirsAtStart) =>
              /\ {"public", "public/assets"} \subseteq dirs
              /\ \A s \in ExpectedSizes : HasPng(files, s)
        /\ assets_dir \in dirsAtStart => dirs = dirsAtStart
        /\ dirsAtStart \subseteq dirs
        /\ \A n \in DOMAIN files \ {ExpectedFile(s) : s \in ExpectedSizes} :
              /\ n \in DOMAIN filesAtStart
              /\ files[n] = filesAtStart[n]
        /\ \A n \in DOMAIN filesAtStart :
              /\ n \in DOMAIN files
              /\ filesAtStart[n] # Absent => files[n] # Absent

C5_Witness ==
    /\ pc = "exited"
    /\ Succeeded
    /\ dirsAtStart = {}
    /\ dirs = {"public", "public/assets"}
    /\ \A s \in ExpectedSizes : HasPng(files, s)

C5_WitnessExisting ==
    /\ pc = "exited"
    /\ Succeeded
    /\ assets_dir \in dirsAtStart
    /\ filesAtStart["manifest.json"] = Data
    /\ files["manifest.json"] = Data
    /\ filesAtStart["icon-48.png"] = Data

\* the positions of trace that hold event e
Positions(e) == {i \in 1..Len(trace) : trace[i] = e}

\* C6: create_icon measures and draws the text if and only if size >= 32:
\* no text call is made (and so none fails) for size 16, and for 32, 48 and
\* 128 a saved icon was measured first, then drawn on, then saved.
C6_TextOnlyFrom32 ==
    /\ \A i \in 1..Len(trace) :
          trace[i][1] \in {"textbbox", "text"} => trace[i][2] >= 32
    /\ failedAt[1] \in {"textbbox", "text"} => failedAt[2] >= 32
    /\ \A s \in ExpectedSizes : \A i \in Positions(<<"save", s>>) :
          IF s >= 32
            THEN \E j, k \in 1..i :
                    /\ j < k /\ k < i
                    /\ trace[j] = <<"textbbox", s>>
                    /\ trace[k] = <<"text", s>>
            ELSE /\ Positions(<<"textbbox", s>>) = {}
                 /\ Positions(<<"text", s>>) = {}

C6_Witness ==
    /\ InTrace(<<"save", 16>>)
    /\ InTrace(<<"text", 32>>)
    /\ InTrace(<<"save", 32>>)
    /\ failedAt = <<"textbbox", 48>>

\* C7: for each of the four sizes the margin floor(size/8) is positive, the
\* gold rectangle of a generated icon spans [margin, size-margin] on both
\* axes, and the four corner pixels of the generated icon are background blue.
C7_CornersBlue ==
    \A s \in ExpectedSizes :
        /\ Margin(s) = s \div 8
        /\ Margin(s) > 0
        /\ HasPng(files, s) =>
              LET im == files[ExpectedFile(s)].image
              IN  /\ im.hasRect
                  /\ im.rect = <<s \div 8, s \div 8, s - s \div 8, s - s \div 8>>
                  /\ im.rectFill = <<234, 179, 8, 255>>
                  /\ \A x, y \in {0, s - 1} :
                        PixelAt(im, x, y) = <<59, 130, 246, 255>>

C7_Witness ==
    /\ \A s \in ExpectedSizes : HasPng(files, s)
    /\ files["icon-128.png"].image.hasGlyph
    /\ PixelAt(files["icon-16.png"].image, 15, 15) = Blue
    /\ PixelAt(files["icon-16.png"].image, 8, 8) = Gold

\* C8: the installer runs at most once per run of the script and only after
\* the first call of main() ended by an ImportError; main() is called at most
\* twice; and when the installer or the second call of main() fails, whatever
\* the class of the failure, no diagnostic of the tolerated-failure handler
\* is printed, nothing is installed or retried again, and the process ends
\* with a non-zero exit status.
C8_SingleRetry ==
    /\ installs <= 1
    /\ installs = 1 => (exc1 = "ImportError" /\ out = <<"installing">>)
    /\ attempt = 2 => (exc1 = "ImportError" /\ out = <<"installing">>)
    /\ (attempt = 2 /\ pc = "uncaught") => installs = 1
    /\ (attempt = 2 /\ pc = "exited") =>
          /\ installs = 1
          /\ IF Succeeded THEN exitCode = 0 ELSE exitCode = 1
    /\ (attempt = 2 /\ failedAt # NoFailure /\ pc # "retry") =>
          pc \in {"uncaught", "exited"}
    /\ pc \in {"except", "install"} => (attempt = 1 /\ installs = 0)

C8_Witness ==
    /\ pc = "exited"
    /\ attempt = 2
    /\ installs = 1
    /\ exc = "Exception"
    /\ failedAt = <<"save", 32>>
    /\ exitCode = 1
    /\ out = <<"installing">>

C8_WitnessInstallFails ==
    /\ pc = "exited"
    /\ exc = "CalledProcessError"
    /\ exitCode = 1
    /\ installs = 1
    /\ out = <<"installing">>

\* the order in which one call of main() does things, when nothing fails
FullTrace(upto) ==
    LET One(s) == <<<<"new", s>>, <<"Draw", s>>, <<"rounded_rectangle", s>>,
                    <<"load_default", s>>>>
                  \o (IF s >= 32 THEN <<<<"textbbox", s>>, <<"text", s>>>>
                      ELSE <<>>)
                  \o <<<<"save", s>>, <<"Created", s>>>>
        all == <<<<"makedirs", 0>>>> \o One(16) \o One(32) \o One(48)
               \o One(128) \o <<<<"banner1", 0>>, <<"banner2", 0>>>>
    IN  SubSeq(all, 1, upto)

\* C9: in one call of main() the directory is ensured before any icon is
\* written; the icons are saved in the order 16, 32, 48, 128, each before its
\* Created line and before the next size is begun; and the two banner lines
\* come only after all four icons were saved, never after a failure.
C9_LinearOrder ==
    /\ Len(trace) <= 33
    /\ trace = FullTrace(Len(trace))
    /\ \A i \in 1..Len(trace) :
          trace[i][1] = "save" => trace[1] = <<"makedirs", 0>>
    /\ \A i \in Positions(<<"banner1", 0>>) :
          /\ \A s \in ExpectedSizes : \E j \in 1..(i - 1) : trace[j] = <<"save", s>>
          /\ \A s \in ExpectedSizes : HasPng(files, s)
    /\ MainFailed => ~InTrace(<<"banner1", 0>>) /\ ~InTrace(<<"banner2", 0>>)

C9_Witness ==
    /\ pc = "returned"
    /\ Succeeded
    /\ Len(trace) = 33
    /\ trace[32] = <<"banner1", 0>>

\* C10: when create_icon fails for the k-th size, the icons of the earlier
\* sizes hold what this call of main() wrote, the files of the failing size
\* and of the later sizes are as they were when main() started, nothing of a
\* later size was begun, the banner is not printed, and main() is left.
C10_NoRollback ==
    \A k \in 1..4 :
        (MainFailed /\ failedAt[2] = <<16, 32, 48, 128>>[k]) =>
            /\ \A m \in 1..(k - 1) :
                  LET s == <<16, 32, 48, 128>>[m]
                  IN  /\ HasPng(files, s)
                      /\ files[ExpectedFile(s)].image.width = s
                      /\ InTrace(<<"save", s>>)
            /\ \A m \in k..4 :
                  LET s == <<16, 32, 48, 128>>[m]
                  IN  /\ files[ExpectedFile(s)] = filesAtStart[ExpectedFile(s)]
                      /\ ~InTrace(<<"save", s>>)
                      /\ m > k => ~InTrace(<<"new", s>>)
            /\ ~InTrace(<<"banner1", 0>>)
            /\ pc \in {"except", "install", "retry", "returned", "uncaught",
                       "exited"}

C10_Witness ==
    /\ pc = "exited"
    /\ failedAt = <<"text", 48>>
    /\ filesAtStart["icon-32.png"] = Data
    /\ files["icon-32.png"].kind = "png"
    /\ files["icon-48.png"] = Data
    /\ files["icon-128.png"] = Absent

====
